---------------------------- MODULE Spec2Model ----------------------------
(***************************************************************************)
(* Wave Function Collapse tile-grid generator (WaveFunctionCollapsePlugIn  *)
(* and its duplicate WFC behind ExcaliburWfcPlugin.levels).                *)
(*                                                                         *)
(* Every object field is a variable indexed by the instance it belongs to  *)
(* (ExcaliburWfcPlugin.levels holds several WFC objects).  Array indices   *)
(* are 0-based as in the source; JS arrays are functions over 0..len-1     *)
(* except for the lists of tile types, which are sequences.                *)
(***************************************************************************)
EXTENDS Integers, Sequences, FiniteSets, TLC

VARIABLES
    width,            \* this.width
    height,           \* this.height
    numTiles,         \* this.numTiles
    tiles,            \* this.tiles : 0..len-1 -> TileData
    rules,            \* this.rules : keys in insertion order, <<[type, rule]>>
    weighting,        \* this.weighting : partial map type -> weight
    startWithRandom,  \* this.startWithRandom
    rnd,              \* this.rnd.seed, as two 16 bit limbs <<high, low>>
    bufferstate,      \* this.bufferstate
    calls,            \* the generateLevel invocations made on the instance
    edits,            \* how many set and reset calls the instance has received
    picks             \* the draws made from this.rnd directly, each with its answer

vars == <<width, height, numTiles, tiles, rules, weighting, startWithRandom,
          rnd, bufferstate, calls, edits, picks>>

---------------------------------------------------------------------------
(* Bounds of the model *)

MaxWidth == 2
MaxHeight == 2
MaxWeight == 2
\* generateLevel calls made on one instance
MaxCalls == 2
\* set and reset calls made on one instance
MaxEdits == 2

---------------------------------------------------------------------------
(* Values *)

\* JS Infinity: larger than every candidate count
Infinity == 1000000
\* JS undefined, as the value of a type field
Undefined == "undefined"
\* the type a tile is created with
Unset == ""
\* the tile type identifiers callers use
Types == {"A", "B"}

NoError == "none"
TypeError == "TypeError: Cannot read properties of undefined"

\* enum BufferState
collapsed == "collapsed"
ready == "ready"
collapsing == "collapsing"
unknown == "unknown"
defaults == "defaults"
BufferState == {collapsed, ready, collapsing, unknown, defaults}

Min(S) == CHOOSE x \in S : \A y \in S : x <= y

\* Array.prototype.filter on a sequence
RECURSIVE Filter(_, _)
Filter(seq, keep) ==
    IF seq = <<>> THEN <<>>
    ELSE LET rest == Filter(Tail(seq), keep)
         IN  IF Head(seq) \in keep THEN <<Head(seq)>> \o rest ELSE rest

Range(seq) == {seq[i] : i \in 1..Len(seq)}

---------------------------------------------------------------------------
(* class Random *)

\* 2^16: the seed s is kept as <<s \div 2^16, s % 2^16>>, m = 2^32 = Limb * Limb
Limb == 65536
a == 1664525
c == 1013904223

ToSeed(n) == <<n \div Limb, n % Limb>>

getRandom_noCarry(seed) ==
    LET low == (a % Limb) * seed[2] + (c % Limb)
        high == (a % Limb) * seed[1] + (a \div Limb) * seed[2] + (c \div Limb)
    IN  <<high % Limb, low % Limb>>

\* getRandom: this.seed = (a * this.seed + c) % m
getRandom(seed) ==
    LET low == (a % Limb) * seed[2] + (c % Limb)
        high == (a % Limb) * seed[1] + (a \div Limb) * seed[2]
                    + (c \div Limb) + (low \div Limb)
    IN  <<high % Limb, low % Limb>>

\* Math.floor((seed / m) * len), for the seed after the draw
Choice(seed, len) == (seed[1] * len + ((seed[2] * len) \div Limb)) \div Limb

\* pickOne(set): the seed after the call and the element returned
pickOne(seed, set) ==
    LET s == getRandom(seed)
        choice == Choice(s, Len(set))
    IN  [seed |-> s,
         value |-> IF choice + 1 \in DOMAIN set THEN set[choice + 1] ELSE Undefined]

Copies_ignoresWeight(item, wieghting) == <<item>>

\* the copies of one item pickOneWeighted pushes
Copies(item, wieghting) ==
    IF item \notin DOMAIN wieghting THEN <<item>>
    ELSE [i \in 1..wieghting[item] |-> item]

RECURSIVE Expand(_, _)
Expand(set, wieghting) ==
    IF set = <<>> THEN <<>>
    ELSE Copies(Head(set), wieghting) \o Expand(Tail(set), wieghting)

pickOneWeighted(seed, set, wieghting) ==
    LET newSet == Expand(set, wieghting)
        s == getRandom(seed)
        choice == Choice(s, Len(newSet))
    IN  [seed |-> s,
         value |-> IF choice + 1 \in DOMAIN newSet THEN newSet[choice + 1]
                   ELSE Undefined]

---------------------------------------------------------------------------
(* this.rules as an object whose keys keep their insertion order *)

Keys(r) == [i \in 1..Len(r) |-> r[i].type]
HasRule(r, type) == \E i \in 1..Len(r) : r[i].type = type
RuleOf(r, type) == r[CHOOSE i \in 1..Len(r) : r[i].type = type].rule
PutRule(r, type, rule) ==
    IF HasRule(r, type)
    THEN [i \in 1..Len(r) |->
            IF r[i].type = type THEN [type |-> type, rule |-> rule] ELSE r[i]]
    ELSE Append(r, [type |-> type, rule |-> rule])

---------------------------------------------------------------------------
(* tiles *)

NewTile(index) ==
    [index |-> index, entropy |-> Infinity, availableTiles |-> <<>>, type |-> Unset]

NewTiles(n) == [index \in 0..(n - 1) |-> NewTile(index)]

Length(t) == Cardinality(DOMAIN t)

upTileIndex_offByOne(index, w) == IF index - w < 0 THEN -1 ELSE index - w - 1
upTileIndex(index, w) == IF index - w < 0 THEN -1 ELSE index - w
downTileIndex(index, w, len) == IF index + w > len - 1 THEN -1 ELSE index + w
rightTileIndex_wraps(index, w) == index + 1
rightTileIndex(index, w) == IF index % w = w - 1 THEN -1 ELSE index + 1
leftTileIndex(index, w) == IF index % w = 0 THEN -1 ELSE index - 1


---------------------------------------------------------------------------
(* _getEntropy: [error, value, tiles], the error thrown if any, the number  *)
(* returned, and this.tiles after the call                                  *)

\* what the resolved neighbour at idx allows in direction dir (lines 404-428):
\* nothing when there is no neighbour or it is unresolved, an error when its
\* type is undefined or has no entry in this.rules
Allowed(t, r, idx, dir) ==
    IF idx = -1 THEN [error |-> NoError, list |-> <<>>]
    ELSE IF t[idx].entropy # 0 THEN [error |-> NoError, list |-> <<>>]
    ELSE IF t[idx].type = Undefined
         THEN [error |-> "invalid tile type found", list |-> <<>>]
    ELSE IF ~HasRule(r, t[idx].type) THEN [error |-> TypeError, list |-> <<>>]
    ELSE [error |-> NoError, list |-> RuleOf(r, t[idx].type)[dir]]

\* testArray[0] in the place of the reduce
Reduce_first(testArray, sum) == sum

\* testArray.reduce((sum, arr) => sum.filter(x => arr.includes(x)), testArray[0])
RECURSIVE Reduce(_, _)
Reduce(testArray, sum) ==
    IF testArray = <<>> THEN sum
    ELSE Reduce(Tail(testArray), Filter(sum, Range(Head(testArray))))

\* the lists that are pushed to testArray: those with a length
NonEmpty(lists) == Filter(lists, {list \in Range(lists) : Len(list) # 0})

Threw(t, error) == [error |-> error, value |-> 0, tiles |-> t]
Returned(t, value) == [error |-> NoError, value |-> value, tiles |-> t]

\* lines 443-448
Store(t, index, consolodatedArray) ==
    IF Len(consolodatedArray) = 0
    THEN Threw(t, "Broken Plot, no availble neighbor tiles")
    ELSE Returned([t EXCEPT ![index].availableTiles = consolodatedArray],
                  Len(consolodatedArray))

\* lines 438-441
Consolidate(t, index, testArray) ==
    IF Len(testArray) = 0 THEN Returned(t, Infinity)
    ELSE Store(t, index, Reduce(testArray, testArray[1]))

\* lines 404-436, given what each neighbour allows
Gather(t, index, up, down, left, right) ==
    IF up.error # NoError THEN Threw(t, up.error)
    ELSE IF down.error # NoError THEN Threw(t, down.error)
    ELSE IF left.error # NoError THEN Threw(t, left.error)
    ELSE IF right.error # NoError THEN Threw(t, right.error)
    ELSE Consolidate(t, index, NonEmpty(<<up.list, down.list, left.list, right.list>>))

\* _getEntropy without the early return of line 387
_getEntropy_noEarlyReturn(t, r, w, index) ==
    Gather(t, index,
           Allowed(t, r, upTileIndex(index, w), "down"),
           Allowed(t, r, downTileIndex(index, w, Length(t)), "up"),
           Allowed(t, r, leftTileIndex(index, w), "right"),
           Allowed(t, r, rightTileIndex(index, w), "left"))

_getEntropy(t, r, w, index) ==
    IF t[index].entropy = 0 THEN Returned(t, 0)
    ELSE Gather(t, index,
                Allowed(t, r, upTileIndex(index, w), "down"),
                Allowed(t, r, downTileIndex(index, w, Length(t)), "up"),
                Allowed(t, r, leftTileIndex(index, w), "right"),
                Allowed(t, r, rightTileIndex(index, w), "left"))

---------------------------------------------------------------------------
(* _setEntropyOfSurroundingTiles: [error, tiles]                            *)

\* one try block of lines 314-343: no call when there is no neighbour
Probe(t, r, w, idx) ==
    IF idx # -1 THEN _getEntropy(t, r, w, idx) ELSE Returned(t, 0)

\* one if of lines 346-357: only the one for the left tile tests the entropy
\* the tile holds
Update(t, idx, entropy, testsStored) ==
    IF idx # -1 /\ entropy # 0 /\ (testsStored => t[idx].entropy # 0)
    THEN [t EXCEPT ![idx].entropy = entropy]
    ELSE t

Broken(t, error) == [error |-> error, tiles |-> t]

\* lines 346-357, in their order: left, right, up, down
UpdateAll(t, w, index, upTileEntropy, downTileEntropy, leftTileEntropy, rightTileEntropy) ==
    Update(Update(Update(Update(t,
        leftTileIndex(index, w), leftTileEntropy, TRUE),
        rightTileIndex(index, w), rightTileEntropy, FALSE),
        upTileIndex(index, w), upTileEntropy, FALSE),
        downTileIndex(index, w, Length(t)), downTileEntropy, FALSE)

AfterRight(got, w, index, upTileEntropy, downTileEntropy, leftTileEntropy) ==
    IF got.error # NoError
    THEN Broken(got.tiles, "broken level, can't get entropy of right tile")
    ELSE Broken(UpdateAll(got.tiles, w, index, upTileEntropy, downTileEntropy,
                          leftTileEntropy, got.value),
                NoError)

AfterLeft(got, r, w, index, upTileEntropy, downTileEntropy) ==
    IF got.error # NoError
    THEN Broken(got.tiles, "broken level, can't get entropy of left tile")
    ELSE AfterRight(Probe(got.tiles, r, w, rightTileIndex(index, w)), w, index,
                    upTileEntropy, downTileEntropy, got.value)

AfterDown(got, r, w, index, upTileEntropy) ==
    IF got.error # NoError
    THEN Broken(got.tiles, "broken level, can't get entropy of down tile")
    ELSE AfterLeft(Probe(got.tiles, r, w, leftTileIndex(index, w)), r, w, index,
                   upTileEntropy, got.value)

AfterUp(got, r, w, index) ==
    IF got.error # NoError
    THEN Broken(got.tiles, "broken level, can't get entropy of up tile")
    ELSE AfterDown(Probe(got.tiles, r, w, downTileIndex(index, w, Length(got.tiles))),
                   r, w, index, got.value)

_setEntropyOfSurroundingTiles(t, r, w, index) ==
    AfterUp(Probe(t, r, w, upTileIndex(index, w)), r, w, index)

---------------------------------------------------------------------------
(* _prepareTileDataForCollapsing: [error, tiles]                            *)

RECURSIVE forEachTile(_, _, _, _)

\* the callback's try block for the tile at index, then the tiles after it
Scan(got, r, w, index) ==
    IF got.error # NoError THEN Broken(got.tiles, got.error)
    ELSE forEachTile([got.tiles EXCEPT ![index].entropy = got.value], r, w, index + 1)

forEachTile(t, r, w, index) ==
    IF index >= Length(t) THEN Broken(t, NoError)
    ELSE IF t[index].entropy = 0 THEN forEachTile(t, r, w, index + 1)
    ELSE Scan(_getEntropy(t, r, w, index), r, w, index)

_prepareTileDataForCollapsing(t, r, w) == forEachTile(t, r, w, 0)

_getNumberOfRemainingTilesToCollapse(t) ==
    Cardinality({i \in DOMAIN t : t[i].entropy # 0})

\* the set as the array it is, in index order
InOrder(S) ==
    [k \in 1..Cardinality(S) |->
        CHOOSE i \in S : Cardinality({j \in S : j < i}) = k - 1]

\* Math.max in the place of Math.min
MinEntropy_max(t, filteredArrayNoZeroes) ==
    IF filteredArrayNoZeroes = {} THEN Infinity
    ELSE CHOOSE e \in {t[i].entropy : i \in filteredArrayNoZeroes} :
            \A i \in filteredArrayNoZeroes : t[i].entropy <= e

\* Math.min(...filteredArrayNoZeroes.map(element => element.entropy))
MinEntropy(t, filteredArrayNoZeroes) ==
    IF filteredArrayNoZeroes = {} THEN Infinity
    ELSE Min({t[i].entropy : i \in filteredArrayNoZeroes})

\* the indices of the tiles of lowestEntropyObjects
LowestEntropy(t, minEntropy) == InOrder({i \in DOMAIN t : t[i].entropy = minEntropy})

_getListofTilesWithLowestEntropy(t) ==
    LowestEntropy(t, MinEntropy(t, {i \in DOMAIN t : t[i].entropy # 0}))

_isDataReady(t, r) ==
    IF Length(t) = 0 THEN unknown
    ELSE IF Len(r) = 0 THEN unknown
    ELSE ready

---------------------------------------------------------------------------
(* _collapseNext: one turn of the outer loop, from its top to the yield,    *)
(* the return or the throw that ends it.  [tiles, seed, result, error]      *)

Thrown(t, seed, error) ==
    [tiles |-> t, seed |-> seed, result |-> "throw", error |-> error]

\* lines 272-277, after a try block that ended as around says
Propagated(around, seed) ==
    IF around.error # NoError
    THEN Thrown(around.tiles, seed, "WFC ERROR: failed to collapse tile")
    ELSE IF _getNumberOfRemainingTilesToCollapse(around.tiles) = 0
    THEN [tiles |-> around.tiles, seed |-> seed, result |-> "return", error |-> NoError]
    ELSE IF \E i \in DOMAIN around.tiles : around.tiles[i].type = Undefined
    THEN Thrown(around.tiles, seed,
                "WFC ERROR: corrupt tile data, invalid undefined type found")
    ELSE [tiles |-> around.tiles, seed |-> seed, result |-> "yield", error |-> NoError]

\* lines 261-265 without currentTileObject.entropy = 0
Assign_keepsEntropy(t, r, w, index, pick) ==
    Propagated(
        _setEntropyOfSurroundingTiles(
            [t EXCEPT ![index].type = pick.value], r, w, index),
        pick.seed)

\* lines 261-265
Assign(t, r, w, index, pick) ==
    Propagated(
        _setEntropyOfSurroundingTiles(
            [t EXCEPT ![index].type = pick.value, ![index].entropy = 0], r, w, index),
        pick.seed)

\* the inner loop (lines 253-278).  retries starts at the number of
\* candidates, which is at least 1 here, so the break of line 255 is not
\* taken on the first turn, and the first turn always leaves the loop: by
\* the throw of line 272 when the try block threw, by passedEntropyTest
\* otherwise.  choices is never added to.
Attempt(t, r, w, weights, seed, index, choices) ==
    Assign(t, r, w, index,
           pickOneWeighted(seed,
                           Filter(t[index].availableTiles,
                                  Range(t[index].availableTiles) \ Range(choices)),
                           weights))

\* what one turn of the outer loop did: the tiles it started from (before),
\* the index of currentTileObject (-1 when none was picked) and the number
\* of times the try block of lines 254-266 was entered (attempts)
NoStep == [before |-> <<>>, index |-> -1, attempts |-> 0]

Noted(step, t, index, attempts) ==
    [tiles |-> step.tiles, seed |-> step.seed, result |-> step.result,
     error |-> step.error,
     step |-> [before |-> t, index |-> index, attempts |-> attempts]]

\* lines 240-252 without the test of line 243
Chosen_unchecked(t, r, w, weights, current) ==
    Noted(Attempt(t, r, w, weights, current.seed, current.value, <<>>),
          t, current.value, 1)

\* lines 240-252, with the tile pickOne gave
Chosen(t, r, w, weights, current) ==
    IF Len(t[current.value].availableTiles) = 0
    THEN Noted(Thrown(t, current.seed, "WFC ERROR: there are no valid tiles remaining"),
               t, current.value, 0)
    ELSE Noted(Attempt(t, r, w, weights, current.seed, current.value, <<>>),
               t, current.value, 1)

\* lines 236-237
Group(t, r, w, weights, seed, nextGroupOfTiles) ==
    IF Len(nextGroupOfTiles) = 0
    THEN Noted(Thrown(t, seed, "WFC ERROR: no valid tiles remaining"), t, -1, 0)
    ELSE Chosen(t, r, w, weights, pickOne(seed, nextGroupOfTiles))

_collapseNext(t, r, w, weights, seed) ==
    Group(t, r, w, weights, seed, _getListofTilesWithLowestEntropy(t))

---------------------------------------------------------------------------
(* Inputs *)

Uniform(list) == [up |-> list, down |-> list, left |-> list, right |-> list]

\* the Rule values callers pass
RuleChoices ==
    { Uniform(<<"A", "B">>), Uniform(<<"A">>), Uniform(<<"B">>),
      [up |-> <<"A">>, down |-> <<"B">>, left |-> <<>>, right |-> <<"B", "A">>] }

Entry(type, rule) == [type |-> type, rule |-> rule]

\* the collections callers pass to setRules, as an array of {type, rule} or
\* as an object keyed by type
RuleTables ==
    { <<Entry("A", Uniform(<<"B">>)), Entry("B", Uniform(<<"A">>))>>,
      <<Entry("B", Uniform(<<"A", "B">>)), Entry("A", Uniform(<<"A", "B">>))>>,
      <<Entry("A", Uniform(<<"A", "B">>))>> }

\* the arrays callers pass to setWeights
WeightArrays ==
    { <<[type |-> "A", weight |-> MaxWeight], [type |-> "B", weight |-> 1]>>,
      <<[type |-> "B", weight |-> 0]>> }

\* the seeds callers pass, and the readings of Date.now()
Seeds == {0, 1, 5, 7}
NoSeed == -1
Clock == {3, 12}

Instances == DOMAIN tiles

---------------------------------------------------------------------------
(* constructor *)

\* options.seed ? new Random(options.seed) : new Random(Date.now())
NewRandom(seed, now) == IF seed # NoSeed /\ seed # 0 THEN ToSeed(seed) ELSE ToSeed(now)

\* the objects of the set made, each by its own constructor call with the
\* same options, and each then given the rules r, the weights w, the tiles t
\* and the flag by the same set calls
Placed(made, wd, ht, r, wt, t, flag) ==
    /\ width = [l \in made |-> wd]
    /\ height = [l \in made |-> ht]
    /\ numTiles = [l \in made |-> wd * ht]
    /\ bufferstate = [l \in made |-> unknown]
    /\ tiles = [l \in made |-> t]
    /\ rules = [l \in made |-> r]
    /\ weighting = [l \in made |-> wt]
    /\ startWithRandom = [l \in made |-> flag]
    /\ calls = [l \in made |-> <<>>]
    /\ edits = [l \in made |-> 0]
    /\ picks = [l \in made |-> <<>>]

Configured(made, wd, ht, seed, r, wt, t, flag) ==
    /\ Placed(made, wd, ht, r, wt, t, flag)
    /\ rnd \in [made -> {NewRandom(seed, now) : now \in Clock}]

\* one object, as its constructor leaves it
Init ==
    \E wd \in 1..MaxWidth, ht \in 1..MaxHeight, seed \in Seeds \cup {NoSeed} :
        Configured({1}, wd, ht, seed, <<>>, <<>>, NewTiles(wd * ht), TRUE)

---------------------------------------------------------------------------
(* generateLevel *)

NotReadyError == "WFC ERROR: tile data is invalid currently in this state"

\* a generateLevel invocation: where it stands (pc), the answer of the
\* generator it awaits (result) and the error it threw or caught (error)
Call(pc, result, error) == [pc |-> pc, result |-> result, error |-> error]

\* the invocation with the number of wfcGenerator.next() calls it has made
\* (the iterations of the while loop of lines 119-128 it has entered) and
\* what the last of them did inside _collapseNext
Counted(call, iterations, step) ==
    [pc |-> call.pc, result |-> call.result, error |-> call.error,
     iterations |-> iterations, step |-> step]

\* what a call leaves when it reaches its first await or throws before it
Left(state, t, seed, call, step) ==
    [bufferstate |-> state, tiles |-> t, seed |-> seed, call |-> call, step |-> step]

\* lines 109-111 without firstTile.entropy = 0
Seeded_keepsEntropy(t, index, type) ==
    [tiles |-> [t EXCEPT ![index].type = type.value], seed |-> type.seed]

\* lines 109-111
Seeded(t, index, type) ==
    [tiles |-> [t EXCEPT ![index].type = type.value, ![index].entropy = 0],
     seed |-> type.seed]

\* lines 107-109
First(t, r, firstTile) ==
    Seeded(t, firstTile.value, pickOne(firstTile.seed, Keys(r)))

\* lines 106-112: [tiles, seed]
RandomStart(t, r, seed, flag) ==
    IF flag THEN First(t, r, pickOne(seed, [k \in 1..Length(t) |-> k - 1]))
    ELSE [tiles |-> t, seed |-> seed]

\* lines 116-122: the first wfcGenerator.next() runs the generator to its
\* first yield, return or throw
Stepped(step) ==
    Left(collapsing, step.tiles, step.seed, Call("await", step.result, step.error),
         step.step)

\* line 114
Scanned(scan, r, w, weights, seed) ==
    IF scan.error # NoError
    THEN Left(ready, scan.tiles, seed, Call("rejected", "none", scan.error), NoStep)
    ELSE Stepped(_collapseNext(scan.tiles, r, w, weights, seed))

Started(start, r, w, weights) ==
    Scanned(_prepareTileDataForCollapsing(start.tiles, r, w), r, w, weights, start.seed)

\* the call, run to its first await
Entered(state, t, r, w, weights, seed, flag) ==
    IF state # ready
    THEN Left(state, t, seed, Call("rejected", "none", NotReadyError), NoStep)
    ELSE Started(RandomStart(t, r, seed, flag), r, w, weights)

generateLevel(l) ==
    /\ Len(calls[l]) < MaxCalls
    /\ LET left == Entered(_isDataReady(tiles[l], rules[l]), tiles[l], rules[l],
                           width[l], weighting[l], rnd[l], startWithRandom[l])
       IN  /\ bufferstate' = [bufferstate EXCEPT ![l] = left.bufferstate]
           /\ tiles' = [tiles EXCEPT ![l] = left.tiles]
           /\ rnd' = [rnd EXCEPT ![l] = left.seed]
           /\ calls' = [calls EXCEPT ![l] =
                            Append(@, Counted(left.call,
                                              IF left.call.pc = "await" THEN 1 ELSE 0,
                                              left.step))]
    /\ UNCHANGED <<width, height, numTiles, rules, weighting, startWithRandom>>

\* the continuation of call k after an await of the while loop (lines
\* 120-129): after a yield the next wfcGenerator.next() and its step, after
\* a return or a caught throw the end of the loop and of the call
resume(l, k) ==
    /\ calls[l][k].pc = "await"
    /\ IF calls[l][k].result = "yield"
       THEN LET step == _collapseNext(tiles[l], rules[l], width[l], weighting[l], rnd[l])
            IN  /\ tiles' = [tiles EXCEPT ![l] = step.tiles]
                /\ rnd' = [rnd EXCEPT ![l] = step.seed]
                /\ calls' = [calls EXCEPT ![l][k] =
                                 Counted(Call("await", step.result, step.error),
                                         @.iterations + 1, step.step)]
                /\ UNCHANGED bufferstate
       ELSE /\ bufferstate' = [bufferstate EXCEPT ![l] = collapsed]
            /\ calls' = [calls EXCEPT ![l][k].pc = "resolved"]
            /\ UNCHANGED <<tiles, rnd>>
    /\ UNCHANGED <<width, height, numTiles, rules, weighting, startWithRandom>>

\* getTileData without the test of bufferstate
getTileData_unguarded(l, tileIndex) ==
    IF \A i \in DOMAIN tiles[l] : tiles[l][i].index # tileIndex
    THEN [error |-> "WFC ERROR: Error choosing tile, possible issue with tiles loaded"]
    ELSE [error |-> NoError,
          tile |-> tiles[l][Min({i \in DOMAIN tiles[l] : tiles[l][i].index = tileIndex})]]

\* getTileData(tileIndex): the error thrown, or the tile returned
getTileData(l, tileIndex) ==
    IF bufferstate[l] # collapsed THEN [error |-> NotReadyError]
    ELSE IF \A i \in DOMAIN tiles[l] : tiles[l][i].index # tileIndex
    THEN [error |-> "WFC ERROR: Error choosing tile, possible issue with tiles loaded"]
    ELSE [error |-> NoError,
          tile |-> tiles[l][Min({i \in DOMAIN tiles[l] : tiles[l][i].index = tileIndex})]]

---------------------------------------------------------------------------
(* tiles, rules and weights *)

\* resetLevel without the loop that rebuilds this.tiles
resetLevel_keepsTiles(l) ==
    /\ rules' = [rules EXCEPT ![l] = <<>>]
    /\ weighting' = [weighting EXCEPT ![l] = <<>>]
    /\ bufferstate' = [bufferstate EXCEPT ![l] = unknown]
    /\ UNCHANGED <<width, height, numTiles, tiles, startWithRandom, rnd, calls>>

\* resetLevel with the this.startWithRandom = true of resetTileData
resetLevel_flagOn(l) ==
    /\ tiles' = [tiles EXCEPT ![l] = NewTiles(numTiles[l])]
    /\ rules' = [rules EXCEPT ![l] = <<>>]
    /\ weighting' = [weighting EXCEPT ![l] = <<>>]
    /\ bufferstate' = [bufferstate EXCEPT ![l] = unknown]
    /\ startWithRandom' = [startWithRandom EXCEPT ![l] = TRUE]
    /\ UNCHANGED <<width, height, numTiles, rnd, calls>>

resetLevel(l) ==
    /\ tiles' = [tiles EXCEPT ![l] = NewTiles(numTiles[l])]
    /\ rules' = [rules EXCEPT ![l] = <<>>]
    /\ weighting' = [weighting EXCEPT ![l] = <<>>]
    /\ bufferstate' = [bufferstate EXCEPT ![l] = unknown]
    /\ UNCHANGED <<width, height, numTiles, startWithRandom, rnd, calls>>

\* line 168: tile is the TileData passed, of which the type is read
PutTile(t, tile, index) ==
    [t EXCEPT ![index] = [index |-> index, type |-> tile.type, entropy |-> Infinity,
                          availableTiles |-> <<>>]]

setTileData(l, tile, index, setRandomStart) ==
    /\ tiles' = [tiles EXCEPT ![l] = PutTile(@, tile, index)]
    /\ startWithRandom' = [startWithRandom EXCEPT ![l] = setRandomStart]
    /\ UNCHANGED <<width, height, numTiles, rules, weighting, rnd, bufferstate, calls>>

\* the forEach of setTiles: an element is stored when its index is truthy,
\* with the type property of the element itself
RECURSIVE forEachInput(_, _)
forEachInput(t, inputs) ==
    IF inputs = <<>> THEN t
    ELSE LET inputTileData == Head(inputs)
         IN  forEachInput(
                 IF inputTileData.index # 0
                 THEN [t EXCEPT ![inputTileData.index] =
                         [index |-> inputTileData.index, type |-> inputTileData.type,
                          entropy |-> Infinity, availableTiles |-> <<>>]]
                 ELSE t,
                 Tail(inputs))

setTiles(l, inputs, setRandomStart) ==
    /\ tiles' = [tiles EXCEPT ![l] = forEachInput(@, inputs)]
    /\ startWithRandom' = [startWithRandom EXCEPT ![l] = setRandomStart]
    /\ UNCHANGED <<width, height, numTiles, rules, weighting, rnd, bufferstate, calls>>

resetTileData(l) ==
    /\ tiles' = [tiles EXCEPT ![l] = NewTiles(numTiles[l])]
    /\ startWithRandom' = [startWithRandom EXCEPT ![l] = TRUE]
    /\ UNCHANGED <<width, height, numTiles, rules, weighting, rnd, bufferstate, calls>>

setRule(l, type, rule) ==
    /\ rules' = [rules EXCEPT ![l] = PutRule(@, type, rule)]
    /\ UNCHANGED <<width, height, numTiles, tiles, weighting, startWithRandom, rnd,
                   bufferstate, calls>>

RECURSIVE PutRules(_, _)
PutRules(r, array) ==
    IF array = <<>> THEN r
    ELSE PutRules(PutRule(r, Head(array).type, Head(array).rule), Tail(array))

\* isArray tells an array of {type, rule} from an object keyed by type,
\* which replaces this.rules by a copy of itself
setRules(l, table, isArray) ==
    /\ rules' = [rules EXCEPT ![l] = IF isArray THEN PutRules(@, table) ELSE table]
    /\ UNCHANGED <<width, height, numTiles, tiles, weighting, startWithRandom, rnd,
                   bufferstate, calls>>

resetRules(l) ==
    /\ rules' = [rules EXCEPT ![l] = <<>>]
    /\ UNCHANGED <<width, height, numTiles, tiles, weighting, startWithRandom, rnd,
                   bufferstate, calls>>

PutWeight(wieghting, type, weight) ==
    [t \in DOMAIN wieghting \cup {type} |->
        IF t = type THEN weight ELSE wieghting[t]]

setWeight(l, type, weight) ==
    /\ weighting' = [weighting EXCEPT ![l] = PutWeight(@, type, weight)]
    /\ UNCHANGED <<width, height, numTiles, tiles, rules, startWithRandom, rnd,
                   bufferstate, calls>>

RECURSIVE PutWeights(_, _)
PutWeights(wieghting, weights) ==
    IF weights = <<>> THEN wieghting
    ELSE PutWeights(PutWeight(wieghting, Head(weights).type, Head(weights).weight),
                    Tail(weights))

setWeights(l, weights) ==
    /\ weighting' = [weighting EXCEPT ![l] = PutWeights(@, weights)]
    /\ UNCHANGED <<width, height, numTiles, tiles, rules, startWithRandom, rnd,
                   bufferstate, calls>>

resetWeights(l) ==
    /\ weighting' = [weighting EXCEPT ![l] = <<>>]
    /\ UNCHANGED <<width, height, numTiles, tiles, rules, startWithRandom, rnd,
                   bufferstate, calls>>

---------------------------------------------------------------------------
(* The instance under every sequence of calls of its public operations *)

\* the TileData values callers pass
TileInputs == {[type |-> type] : type \in Types \cup {Undefined}}

\* a set or reset call, counted
Edit(l) ==
    /\ edits[l] < MaxEdits
    /\ edits' = [edits EXCEPT ![l] = @ + 1]
    /\ UNCHANGED picks

\* the calls a caller can make, with every input
CallGenerateLevel(l) == generateLevel(l) /\ UNCHANGED <<edits, picks>>

Resume(l) == \E k \in DOMAIN calls[l] : resume(l, k) /\ UNCHANGED <<edits, picks>>

CallResetLevel(l) == resetLevel(l) /\ Edit(l)

CallSetTileData(l) ==
    \E tile \in TileInputs, index \in DOMAIN tiles[l], flag \in BOOLEAN :
        setTileData(l, tile, index, flag) /\ Edit(l)

\* the arrays callers pass to setTiles: none, one or two elements, an element
\* carrying its type itself or (as declared, under tile) not at all
TilesInputs(n) ==
    {<<>>}
    \cup {<<[index |-> i, type |-> type]>> : i \in 0..(n - 1), type \in Types \cup {Undefined}}
    \cup {<<[index |-> i, type |-> "A"], [index |-> j, type |-> "B"]>> :
            i \in 0..(n - 1), j \in 0..(n - 1)}

CallSetTiles(l) ==
    \E inputs \in TilesInputs(Length(tiles[l])), flag \in BOOLEAN :
        setTiles(l, inputs, flag) /\ Edit(l)

CallResetTileData(l) == resetTileData(l) /\ Edit(l)

CallSetRule(l) ==
    \E type \in Types, rule \in RuleChoices : setRule(l, type, rule) /\ Edit(l)

CallSetRules(l) ==
    \E table \in RuleTables, isArray \in BOOLEAN : setRules(l, table, isArray) /\ Edit(l)

CallResetRules(l) == resetRules(l) /\ Edit(l)

CallSetWeight(l) ==
    \E type \in Types, weight \in 0..MaxWeight : setWeight(l, type, weight) /\ Edit(l)

CallSetWeights(l) == \E weights \in WeightArrays : setWeights(l, weights) /\ Edit(l)

CallResetWeights(l) == resetWeights(l) /\ Edit(l)

Next ==
    \E l \in {1} :
        \/ CallGenerateLevel(l)
        \/ Resume(l)
        \/ CallResetLevel(l)
        \/ CallSetTileData(l)
        \/ CallSetTiles(l)
        \/ CallResetTileData(l)
        \/ CallSetRule(l)
        \/ CallSetRules(l)
        \/ CallResetRules(l)
        \/ CallSetWeight(l)
        \/ CallSetWeights(l)
        \/ CallResetWeights(l)

Spec == Init /\ [][Next]_vars

---------------------------------------------------------------------------
(* One generateLevel call on an instance that its caller has configured    *)

\* the rule tables setRule and setRules can build from RuleChoices
RunRules ==
    {<<Entry(x, rule)>> : x \in Types, rule \in RuleChoices}
    \cup {<<Entry(x, rx), Entry(y, ry)>> :
            <<x, y, rx, ry>> \in {q \in Types \X Types \X RuleChoices \X RuleChoices :
                                    q[1] # q[2]}}

\* the weights setWeight and setWeights can leave
RunWeights == {<<>>, PutWeight(<<>>, "A", MaxWeight), PutWeight(<<>>, "B", 0)}

\* the tiles after at most one setTileData call
RunTiles(n) ==
    {NewTiles(n)}
    \cup {PutTile(NewTiles(n), [type |-> type], index) : type \in Types, index \in 0..(n - 1)}

\* the seeds given to the constructor
RunSeeds == Seeds \cup {NoSeed}

InitRun ==
    \E wd \in 1..MaxWidth, ht \in 1..MaxHeight, seed \in RunSeeds,
       r \in RunRules, wt \in RunWeights, flag \in BOOLEAN :
        \E t \in RunTiles(wd * ht) :
            Configured({1}, wd, ht, seed, r, wt, t, flag)

\* the only call made
RunOnce(l) == calls[l] = <<>> /\ CallGenerateLevel(l)

NextRun == \E l \in {1} : RunOnce(l) \/ Resume(l)

SpecRun == InitRun /\ [][NextRun]_vars

\* a generateLevel call on l stands at its await
Awaiting(l) == \E k \in DOMAIN calls[l] : calls[l][k].pc = "await"

\* the event loop runs the continuation of every await, since the promise
\* awaited is settled when the await is reached: weak fairness of Resume,
\* WF_vars(Resume(l)), written out with Awaiting(l) for ENABLED <<Resume(l)>>_vars
\* (resume is guarded by pc = "await" alone and every resume changes calls)
Continued(l) ==
    \/ []<>(~Awaiting(l))
    \/ []<><<Awaiting(l) /\ calls'[l] # calls[l]>>_vars

SpecRunFair == SpecRun /\ \A l \in {1} : Continued(l)

---------------------------------------------------------------------------
(* Two instances made with the same options and given the same rules and   *)
(* weights, one generateLevel call on each                                  *)

InitTwin ==
    \E wd \in 1..MaxWidth, ht \in 1..MaxHeight, seed \in Seeds,
       r \in RuleTables, wt \in RunWeights :
        Configured({1, 2}, wd, ht, seed, r, wt, NewTiles(wd * ht), TRUE)

NextTwin == \E l \in {1, 2} : RunOnce(l) \/ Resume(l)

SpecTwin == InitTwin /\ [][NextTwin]_vars

---------------------------------------------------------------------------
(* this.rnd used on its own: a Random made from a seed and then asked for  *)
(* numbers and picks                                                       *)

MaxDraws == 3

\* the seeds given to new Random(seed): small ones and 2^32 - 1
RandomSeeds == {ToSeed(n) : n \in Seeds \cup Clock} \cup {<<Limb - 1, Limb - 1>>}

\* the arrays given to pickOne and pickOneWeighted
PickSets ==
    {<<>>, <<"A">>, <<"B">>, <<"A", "B">>, <<"B", "A">>, <<"A", "A">>, <<"B", "A", "B">>}

\* the weightings given to pickOneWeighted
PickWeights ==
    {<<>>}
    \cup {PutWeight(<<>>, type, weight) : type \in Types, weight \in 0..MaxWeight}
    \cup {PutWeight(PutWeight(<<>>, "A", wa), "B", wb) :
            wa \in 1..MaxWeight, wb \in 1..MaxWeight}

\* the last call made on the Random: its arguments, the seed before and
\* after it, what it returned (getRandom returns after / 2^32, kept as
\* after) and the error it threw (none is thrown by this code), and how many
\* calls have been made
Draw(op, set, wieghting, before, after, value, count) ==
    [op |-> op, set |-> set, wieghting |-> wieghting, before |-> before,
     after |-> after, value |-> value, error |-> NoError, count |-> count]

Count(l) == IF picks[l] = <<>> THEN 0 ELSE picks[l][1].count

Others == <<width, height, numTiles, tiles, rules, weighting, startWithRandom,
            bufferstate, calls, edits>>

\* this.rnd.getRandom()
DrawGetRandom(l) ==
    /\ Count(l) < MaxDraws
    /\ rnd' = [rnd EXCEPT ![l] = getRandom(rnd[l])]
    /\ picks' = [picks EXCEPT ![l] =
                    <<Draw("getRandom", <<>>, <<>>, rnd[l], getRandom(rnd[l]),
                           getRandom(rnd[l]), Count(l) + 1)>>]
    /\ UNCHANGED Others

\* this.rnd.pickOne(set)
DrawPickOne(l) ==
    /\ Count(l) < MaxDraws
    /\ \E set \in PickSets :
        /\ rnd' = [rnd EXCEPT ![l] = pickOne(rnd[l], set).seed]
        /\ picks' = [picks EXCEPT ![l] =
                        <<Draw("pickOne", set, <<>>, rnd[l], pickOne(rnd[l], set).seed,
                               pickOne(rnd[l], set).value, Count(l) + 1)>>]
    /\ UNCHANGED Others

\* this.rnd.pickOneWeighted(set, wieghting)
DrawPickOneWeighted(l) ==
    /\ Count(l) < MaxDraws
    /\ \E set \in PickSets, wieghting \in PickWeights :
        /\ rnd' = [rnd EXCEPT ![l] = pickOneWeighted(rnd[l], set, wieghting).seed]
        /\ picks' = [picks EXCEPT ![l] =
                        <<Draw("pickOneWeighted", set, wieghting, rnd[l],
                               pickOneWeighted(rnd[l], set, wieghting).seed,
                               pickOneWeighted(rnd[l], set, wieghting).value,
                               Count(l) + 1)>>]
    /\ UNCHANGED Others

InitRandom ==
    /\ Placed({1}, 1, 1, <<>>, <<>>, NewTiles(1), TRUE)
    /\ rnd \in [{1} -> RandomSeeds]

NextRandom ==
    \E l \in {1} : DrawGetRandom(l) \/ DrawPickOne(l) \/ DrawPickOneWeighted(l)

SpecRandom == InitRandom /\ [][NextRandom]_vars

---------------------------------------------------------------------------
(* The neighbours _getEntropy and _setEntropyOfSurroundingTiles compute   *)
(* for a tile (lines 298-302 and 389-394), on grids of every shape         *)

MaxSide == 5

\* the four indices computed for the tile at index
Neighbourhood(l, index) ==
    [op |-> "neighbours", index |-> index,
     up |-> upTileIndex(index, width[l]),
     down |-> downTileIndex(index, width[l], Length(tiles[l])),
     left |-> leftTileIndex(index, width[l]),
     right |-> rightTileIndex(index, width[l])]

FindNeighbours(l) ==
    /\ picks[l] = <<>>
    /\ \E index \in DOMAIN tiles[l] : picks' = [picks EXCEPT ![l] = <<Neighbourhood(l, index)>>]
    /\ UNCHANGED <<rnd, Others>>

InitGrid ==
    /\ \E wd \in 1..MaxSide, ht \in 1..MaxSide :
            Placed({1}, wd, ht, <<>>, <<>>, NewTiles(wd * ht), TRUE)
    /\ rnd = [l \in {1} |-> ToSeed(1)]

NextGrid == \E l \in {1} : FindNeighbours(l)

SpecGrid == InitGrid /\ [][NextGrid]_vars

---------------------------------------------------------------------------
(* Vocabulary of the properties *)

Directions == {"up", "down", "left", "right"}

Opposite(d) ==
    CASE d = "up" -> "down" [] d = "down" -> "up"
      [] d = "left" -> "right" [] d = "right" -> "left"

\* the index of the cell next to index in direction d, -1 when there is none
NeighbourIndex(index, w, len, d) ==
    CASE d = "up" -> upTileIndex(index, w)
      [] d = "down" -> downTileIndex(index, w, len)
      [] d = "left" -> leftTileIndex(index, w)
      [] d = "right" -> rightTileIndex(index, w)

\* the types rules[type][d] names, none when the type has no rule
AllowedTypes(r, type, d) ==
    IF HasRule(r, type) THEN Range(RuleOf(r, type)[d]) ELSE {}

IsResolved(tile) == tile.entropy = 0

\* the cell holds a type: neither the initial "" nor undefined
IsAssigned(tile) == tile.type \notin {Unset, Undefined}

\* a cell that holds a type given by setTileData or setTiles and has not
\* been resolved since: nothing else leaves a type with an entropy other
\* than 0
IsAnchor(tile) == tile.type \in Types /\ tile.entropy # 0

AllResolved(l) == \A i \in DOMAIN tiles[l] : IsResolved(tiles[l][i])

\* a generateLevel call on l has returned (its promise is resolved)
HasReturned(l) == \E k \in DOMAIN calls[l] : calls[l][k].pc = "resolved"

\* a generateLevel call on l is suspended between two steps of the loop
Suspended(l) ==
    \E k \in DOMAIN calls[l] : calls[l][k].pc = "await" /\ calls[l][k].result = "yield"

\* the step is one of generateLevel on l: the call to its first await, or a
\* continuation of it
Activity(l) == calls'[l] # calls[l]

\* the step is a generateLevel call on l
Calling(l) == Len(calls'[l]) = Len(calls[l]) + 1

---------------------------------------------------------------------------
(* C1: local consistency.  Whenever generateLevel has finished with every  *)
(* cell resolved, every cell c and every in-bounds neighbour n of c in     *)
(* direction d satisfy n.type \in rules[c.type][d].                        *)

LocallyConsistent(l) ==
    \A i \in DOMAIN tiles[l], d \in Directions :
        LET n == NeighbourIndex(i, width[l], Length(tiles[l]), d)
        IN  n # -1 => tiles[l][n].type \in AllowedTypes(rules[l], tiles[l][i].type, d)

C1_LocalConsistency ==
    \A l \in Instances : HasReturned(l) /\ AllResolved(l) => LocallyConsistent(l)

---------------------------------------------------------------------------
(* C2: when a step of the collapse loop raised an error, generateLevel     *)
(* finishes with bufferstate other than collapsed, and getTileData throws. *)

C2_ErrorLeavesNotCollapsed ==
    \A l \in Instances : \A k \in DOMAIN calls[l] :
        calls[l][k].pc = "resolved" /\ calls[l][k].error # NoError
            => /\ bufferstate[l] # collapsed
               /\ \A i \in DOMAIN tiles[l] : getTileData(l, i).error # NoError

---------------------------------------------------------------------------
(* C3: bufferstate = collapsed implies that every cell has entropy 0 and   *)
(* an assigned type.                                                       *)

C3_CollapsedIsResolved ==
    \A l \in Instances :
        bufferstate[l] = collapsed
            => \A i \in DOMAIN tiles[l] :
                    IsResolved(tiles[l][i]) /\ IsAssigned(tiles[l][i])

---------------------------------------------------------------------------
(* C4: generateLevel on an instance that is not ready throws and leaves    *)
(* tiles, rules, weights, startWithRandom, the seed and bufferstate as     *)
(* they were.                                                              *)

C4_NotReadyChangesNothing ==
    [][\A l \in Instances :
          Calling(l) /\ _isDataReady(tiles[l], rules[l]) # ready
              => /\ calls'[l][Len(calls'[l])].pc = "rejected"
                 /\ tiles'[l] = tiles[l] /\ rules'[l] = rules[l]
                 /\ weighting'[l] = weighting[l]
                 /\ startWithRandom'[l] = startWithRandom[l]
                 /\ rnd'[l] = rnd[l]
                 /\ bufferstate'[l] = bufferstate[l]]_vars

---------------------------------------------------------------------------
(* C5: a generateLevel call made while another one is in progress on the   *)
(* instance (bufferstate collapsing, suspended at an await) is rejected    *)
(* and resolves or re-seeds no cell.                                       *)

C5_SecondCallRejected ==
    [][\A l \in Instances :
          Calling(l) /\ Suspended(l) /\ bufferstate[l] = collapsing
              => /\ calls'[l][Len(calls'[l])].pc = "rejected"
                 /\ tiles'[l] = tiles[l]
                 /\ rnd'[l] = rnd[l]]_vars

---------------------------------------------------------------------------
(* C6: no step of generateLevel (random start, step loop, propagation)     *)
(* changes the type or the entropy of a cell that has entropy 0.           *)

C6_ResolvedIsImmutable ==
    [][\A l \in Instances :
          Activity(l)
              => \A i \in DOMAIN tiles[l] :
                    IsResolved(tiles[l][i])
                        => /\ tiles'[l][i].type = tiles[l][i].type
                           /\ tiles'[l][i].entropy = 0]_vars

---------------------------------------------------------------------------
(* C7: two instances made with the same seed, width and height and given   *)
(* the same rules, weights and tiles end generateLevel with the same tiles *)
(* and the same bufferstate.                                               *)

Ended(l) == Len(calls[l]) = 1 /\ calls[l][1].pc \in {"resolved", "rejected"}

C7_Determinism ==
    (\A l \in Instances : Ended(l))
        => \A l1 \in Instances, l2 \in Instances :
                tiles[l1] = tiles[l2] /\ bufferstate[l1] = bufferstate[l2]

---------------------------------------------------------------------------
(* C8: a cell given type T by setTileData before the run keeps T through   *)
(* every step of generateLevel, and T constrains the candidates of its     *)
(* neighbours during the run.                                              *)

\* the unresolved neighbours of the anchor at i hold candidates that the
\* anchor's rule allows in their direction
Constrains(t, r, w, i) ==
    \A d \in Directions :
        LET n == NeighbourIndex(i, w, Length(t), d)
        IN  n # -1 /\ ~IsResolved(t[n])
                => /\ t[n].entropy # Infinity
                   /\ Range(t[n].availableTiles) \subseteq AllowedTypes(r, t[i].type, d)

C8_AnchorIsFixed ==
    [][\A l \in Instances :
          Activity(l)
              => \A i \in DOMAIN tiles[l] :
                    IsAnchor(tiles[l][i])
                        => /\ tiles'[l][i].type = tiles[l][i].type
                           /\ Suspended(l)' => Constrains(tiles'[l], rules[l], width[l], i)]_vars

---------------------------------------------------------------------------
(* C9: a cell has entropy 0 if and only if it has an assigned type.        *)

C9_ResolvedIffTyped ==
    \A l \in Instances : \A i \in DOMAIN tiles[l] :
        IsResolved(tiles[l][i]) <=> IsAssigned(tiles[l][i])

---------------------------------------------------------------------------
(* C10: at every suspension point of a run, an unresolved cell with a      *)
(* resolved neighbour has as entropy the size of the intersection of the   *)
(* lists its resolved neighbours contribute, and an unresolved cell with   *)
(* no resolved neighbour has entropy Infinity.                             *)

\* the directions in which the cell at i has a resolved neighbour
ResolvedAround(t, w, i) ==
    {d \in Directions :
        LET n == NeighbourIndex(i, w, Length(t), d) IN n # -1 /\ IsResolved(t[n])}

\* the types every resolved neighbour of the cell at i allows it to be
Intersection(t, r, w, i) ==
    {type \in Types :
        \A d \in ResolvedAround(t, w, i) :
            type \in AllowedTypes(r, t[NeighbourIndex(i, w, Length(t), d)].type,
                                  Opposite(d))}

EntropyIsCorrect(t, r, w, i) ==
    IF ResolvedAround(t, w, i) = {} THEN t[i].entropy = Infinity
    ELSE t[i].entropy = Cardinality(Intersection(t, r, w, i))

C10_EntropyCorrect ==
    \A l \in Instances :
        Suspended(l)
            => \A i \in DOMAIN tiles[l] :
                    ~IsResolved(tiles[l][i])
                        => EntropyIsCorrect(tiles[l], rules[l], width[l], i)

---------------------------------------------------------------------------
(* C11: when a rule list names a type that has no rule of its own, the     *)
(* promise of generateLevel rejects, and the instance never ends collapsed *)
(* with a cell whose type is unset.                                        *)

NamesUndeclared(r) ==
    \E k \in DOMAIN r, d \in Directions :
        \E type \in Range(r[k].rule[d]) : ~HasRule(r, type)

C11_UndeclaredTypeFails ==
    \A l \in Instances :
        NamesUndeclared(rules[l])
            => /\ \A k \in DOMAIN calls[l] : calls[l][k].pc # "resolved"
               /\ ~(bufferstate[l] = collapsed
                        /\ \E i \in DOMAIN tiles[l] : tiles[l][i].type = Unset)

---------------------------------------------------------------------------
(* C12: getTileData(i) throws whenever bufferstate is not collapsed; when  *)
(* bufferstate is collapsed and 0 <= i < width * height it returns the     *)
(* cell of the tiles array whose index field is i.                         *)

C12_GetTileData ==
    \A l \in Instances : \A i \in 0..(width[l] * height[l] - 1) :
        IF bufferstate[l] # collapsed
        THEN getTileData(l, i).error # NoError
        ELSE /\ getTileData(l, i).error = NoError
             /\ getTileData(l, i).tile.index = i
             /\ getTileData(l, i).tile \in {tiles[l][j] : j \in DOMAIN tiles[l]}

\* a collapsed instance hands out a typed cell, after an instance that was
\* still collapsing refused
C12_Witness ==
    \E l \in Instances :
        /\ bufferstate[l] = collapsed
        /\ getTileData(l, 0).error = NoError
        /\ getTileData(l, 0).tile.type \in Types

---------------------------------------------------------------------------
(* C13: after resetLevel or resetTileData, whatever came before, the tiles *)
(* array has width * height cells, cell i with index i, entropy Infinity,  *)
(* the unset type and no available tiles; the same reset applied to the    *)
(* state a reset leaves changes nothing.                                   *)

Fresh(l) ==
    /\ DOMAIN tiles[l] = 0..(width[l] * height[l] - 1)
    /\ \A i \in DOMAIN tiles[l] :
            tiles[l][i] = [index |-> i, entropy |-> Infinity, type |-> Unset,
                           availableTiles |-> <<>>]

\* what resetLevel leaves, and what resetTileData leaves
LevelIsReset(l) ==
    Fresh(l) /\ rules[l] = <<>> /\ weighting[l] = <<>> /\ bufferstate[l] = unknown

TileDataIsReset(l) == Fresh(l) /\ startWithRandom[l] = TRUE

\* the fields of the object
Fields(l) ==
    <<width[l], height[l], numTiles[l], tiles[l], rules[l], weighting[l],
      startWithRandom[l], rnd[l], bufferstate[l], calls[l]>>

C13_ResetIdempotence ==
    [][\A l \in Instances :
          /\ resetLevel(l)
                => LevelIsReset(l)' /\ (LevelIsReset(l) => Fields(l)' = Fields(l))
          /\ resetTileData(l)
                => TileDataIsReset(l)'
                   /\ (TileDataIsReset(l) => Fields(l)' = Fields(l))]_vars

\* a reset has followed a run that had resolved cells
C13_Witness ==
    \E l \in Instances :
        Fresh(l) /\ HasReturned(l) /\ rules[l] = <<>> /\ bufferstate[l] = unknown

---------------------------------------------------------------------------
(* C14: a step of the collapse loop that starts at a suspension point and  *)
(* completes without error resolves exactly one cell: the number of cells  *)
(* with entropy 0 grows by exactly one.                                    *)

ResolvedCount(t) == Cardinality({i \in DOMAIN t : IsResolved(t[i])})

\* the step is an iteration of the loop of call k that ends without error
Completes(l, k) ==
    /\ calls[l][k].pc = "await" /\ calls[l][k].result = "yield"
    /\ calls'[l][k].pc = "await" /\ calls'[l][k].result \in {"yield", "return"}
    /\ calls'[l][k].iterations = calls[l][k].iterations + 1

C14_OneCellPerStep ==
    [][\A l \in Instances : \A k \in DOMAIN calls[l] :
          Completes(l, k)
              => ResolvedCount(tiles'[l]) = ResolvedCount(tiles[l]) + 1]_vars

\* a run suspended again after a step taken from a suspension point
C14_Witness ==
    \E l \in Instances :
        Suspended(l) /\ \E k \in DOMAIN calls[l] : calls[l][k].iterations >= 2

---------------------------------------------------------------------------
(* C15: every generateLevel call on a ready instance ends, resolved or     *)
(* rejected, and enters the collapse loop at most width * height times.    *)

WithinBound ==
    \A l \in Instances : \A k \in DOMAIN calls[l] :
        calls[l][k].iterations <= width[l] * height[l]

C15_TerminatesWithinBound ==
    /\ []WithinBound
    /\ \A l \in {1} : (calls[l] # <<>>) ~> Ended(l)

\* a run on more than two cells that took the most iterations there are:
\* the random start resolves one cell, every iteration but the last one more
C15_Witness ==
    \E l \in Instances :
        /\ Ended(l) /\ numTiles[l] >= 3
        /\ calls[l][1].iterations = numTiles[l] - 1

---------------------------------------------------------------------------
(* C16: with a rule set in which every declared type lists exactly the     *)
(* declared types in all four directions, positive weights and             *)
(* startWithRandom true, a generateLevel call eventually leaves the        *)
(* instance collapsed with every cell at entropy 0 and of a declared type. *)
(* Stated for every grid the call may find, the fresh one included.        *)

Complete(r) ==
    /\ r # <<>>
    /\ \A k \in DOMAIN r, d \in Directions :
            Range(r[k].rule[d]) = {r[j].type : j \in DOMAIN r}

PositiveWeights(wieghting) == \A type \in DOMAIN wieghting : wieghting[type] > 0

FullyCollapsed(l) ==
    /\ bufferstate[l] = collapsed
    /\ \A i \in DOMAIN tiles[l] :
            IsResolved(tiles[l][i]) /\ HasRule(rules[l], tiles[l][i].type)

---------------------------------------------------------------------------
\* C17: pickOne returns set[floor(next() * length)] for a non-empty array and
\* fails with an EmptySelection error, returning nothing, for an empty one.
C17_PickOneOrFail ==
    \A l \in DOMAIN picks : \A k \in DOMAIN picks[l] :
        picks[l][k].op = "pickOne" =>
            IF picks[l][k].set = <<>>
            THEN picks[l][k].error = "EmptySelection"
            ELSE /\ picks[l][k].error = NoError
                 /\ picks[l][k].value =
                        picks[l][k].set[Choice(picks[l][k].after, Len(picks[l][k].set)) + 1]

---------------------------------------------------------------------------
\* the weight of a candidate: its entry in the weighting, 1 when it has none
WeightOf(item, wieghting) == IF item \in DOMAIN wieghting THEN wieghting[item] ELSE 1

\* the total weight of the first j candidates
RECURSIVE Cumulative(_, _, _)
Cumulative(set, wieghting, j) ==
    IF j = 0 THEN 0 ELSE Cumulative(set, wieghting, j - 1) + WeightOf(set[j], wieghting)

\* element k (counted from 0) of the list that repeats each candidate
\* weight-many times in input order: the first candidate whose cumulative
\* weight exceeds k
ElementOfExpansion(set, wieghting, k) ==
    set[Min({j \in 1..Len(set) : Cumulative(set, wieghting, j) > k})]

PositiveOrAbsent(set, wieghting) ==
    \A j \in 1..Len(set) : WeightOf(set[j], wieghting) >= 1

\* C18: for a non-empty candidate list whose candidates have a positive weight
\* or none (none counts as 1), pickOneWeighted consumes one draw r, returns
\* element floor(r * total weight) of the candidates repeated weight-many
\* times in input order, and the result is a member of the candidate list.
C18_WeightedPick ==
    \A l \in DOMAIN picks : \A k \in DOMAIN picks[l] :
        (/\ picks[l][k].op = "pickOneWeighted"
         /\ picks[l][k].set # <<>>
         /\ PositiveOrAbsent(picks[l][k].set, picks[l][k].wieghting))
        => /\ picks[l][k].after = getRandom(picks[l][k].before)
           /\ picks[l][k].value =
                ElementOfExpansion(picks[l][k].set, picks[l][k].wieghting,
                    Choice(picks[l][k].after,
                           Cumulative(picks[l][k].set, picks[l][k].wieghting,
                                      Len(picks[l][k].set))))
           /\ picks[l][k].value \in Range(picks[l][k].set)

\* a weighted pick among several candidates, one of weight 2, whose answer is
\* not the one the unweighted pick gives for the same draw
C18_Witness ==
    \E l \in DOMAIN picks : \E k \in DOMAIN picks[l] :
        /\ picks[l][k].op = "pickOneWeighted"
        /\ Len(picks[l][k].set) >= 2
        /\ PositiveOrAbsent(picks[l][k].set, picks[l][k].wieghting)
        /\ \E j \in 1..Len(picks[l][k].set) :
                WeightOf(picks[l][k].set[j], picks[l][k].wieghting) = 2
        /\ picks[l][k].value #
                picks[l][k].set[Choice(picks[l][k].after, Len(picks[l][k].set)) + 1]

---------------------------------------------------------------------------
\* x + y mod 2^32, on numbers kept as two 16-bit halves
Sum(x, y) == <<(x[1] + y[1] + ((x[2] + y[2]) \div Limb)) % Limb, (x[2] + y[2]) % Limb>>

\* n * x mod 2^32 by doubling
RECURSIVE Times(_, _)
Times(n, x) ==
    IF n = 0 THEN <<0, 0>>
    ELSE IF n % 2 = 1 THEN Sum(x, Times(n \div 2, Sum(x, x)))
    ELSE Times(n \div 2, Sum(x, x))

\* an integer of 0..2^32-1
IsState(x) == x[1] \in 0..(Limb - 1) /\ x[2] \in 0..(Limb - 1)

\* C19: from an integer seed in 0..2^32-1 and after any number of getRandom
\* calls, the state is an integer in 0..2^32-1 equal to
\* (1664525 * s + 1013904223) mod 2^32 of the previous state s, and the value
\* returned is state / 2^32 (kept here as the state), which is in [0,1).
C19_LinearCongruential ==
    \A l \in DOMAIN picks :
        /\ IsState(rnd[l])
        /\ \A k \in DOMAIN picks[l] :
            picks[l][k].op = "getRandom" =>
                /\ picks[l][k].after =
                        Sum(Times(1664525, picks[l][k].before),
                            <<1013904223 \div Limb, 1013904223 % Limb>>)
                /\ picks[l][k].after = rnd[l]
                /\ picks[l][k].value = picks[l][k].after
                /\ IsState(picks[l][k].value)

\* a second or later getRandom from a state whose product with the
\* multiplier carries from the low half into the high half
C19_Witness ==
    \E l \in DOMAIN picks : \E k \in DOMAIN picks[l] :
        /\ picks[l][k].op = "getRandom"
        /\ picks[l][k].count >= 2
        /\ picks[l][k].before[1] >= Limb \div 2
        /\ picks[l][k].before[2] >= Limb \div 2

---------------------------------------------------------------------------
\* C20: bufferstate is one of unknown, ready, collapsing, collapsed, never
\* 'defaults', and it is unknown only when the tile array is empty or no rule
\* is registered.
C20_BufferStateMeaning ==
    \A l \in DOMAIN bufferstate :
        /\ bufferstate[l] \in {unknown, ready, collapsing, collapsed}
        /\ bufferstate[l] = unknown => (Length(tiles[l]) = 0 \/ rules[l] = <<>>)

---------------------------------------------------------------------------
(* The steps of the collapse loop, as the calls recorded them *)

FailedToCollapse == "WFC ERROR: failed to collapse tile"

\* the candidate set of the cell a step chose, as it was when the step began
Candidates(step) == step.before[step.index].availableTiles

\* C21: when propagation after assigning a type to the chosen cell fails,
\* the cell is attempted again, up to as many attempts as its candidate set
\* had at the start of the step, and only then does the run fail with
\* 'failed to collapse tile'.
C21_RetriesUpToCandidates ==
    \A l \in DOMAIN calls : \A k \in DOMAIN calls[l] :
        calls[l][k].error = FailedToCollapse =>
            calls[l][k].step.attempts = Len(Candidates(calls[l][k].step))

---------------------------------------------------------------------------
\* the steps that picked a cell
Picked(l, k) == calls[l][k].step.index # -1

\* C22: at every step of the collapse loop the chosen cell is unresolved and
\* its entropy is the minimum over the cells with entropy # 0 at the start
\* of the step: no cell of larger entropy is chosen while an unresolved cell
\* of smaller entropy exists.
C22_LowestEntropyChosen ==
    \A l \in DOMAIN calls : \A k \in DOMAIN calls[l] :
        Picked(l, k) =>
            /\ calls[l][k].step.before[calls[l][k].step.index].entropy # 0
            /\ \A j \in DOMAIN calls[l][k].step.before :
                    calls[l][k].step.before[j].entropy # 0 =>
                        calls[l][k].step.before[calls[l][k].step.index].entropy
                            <= calls[l][k].step.before[j].entropy

\* a step that chose a cell of finite entropy while an unresolved cell of
\* larger finite entropy and an untouched cell were there
C22_Witness ==
    \E l \in DOMAIN calls : \E k \in DOMAIN calls[l] :
        /\ Picked(l, k)
        /\ \E j, u \in DOMAIN calls[l][k].step.before :
            /\ calls[l][k].step.before[calls[l][k].step.index].entropy
                    < calls[l][k].step.before[j].entropy
            /\ calls[l][k].step.before[j].entropy < Infinity
            /\ calls[l][k].step.before[u].entropy = Infinity

---------------------------------------------------------------------------
\* the in-bounds 4-neighbours of the cell at index
Neighbours(l, index) ==
    {NeighbourIndex(index, width[l], numTiles[l], d) : d \in Directions} \ {-1}

\* the steps that completed without an error
Succeeded(l, k) == Picked(l, k) /\ calls[l][k].error = NoError

\* C23: a successful step changes only the chosen cell (type set, entropy 0)
\* and the entropy and availableTiles of its in-bounds unresolved
\* neighbours: a neighbour that already had entropy 0 keeps its type and its
\* entropy 0, and a cell that is neither the chosen one nor a neighbour of it
\* is unchanged.
C23_StepFrame ==
    \A l \in DOMAIN calls : \A k \in DOMAIN calls[l] :
        Succeeded(l, k) =>
            /\ tiles[l][calls[l][k].step.index].entropy = 0
            /\ \A j \in DOMAIN tiles[l] \ {calls[l][k].step.index} :
                /\ j \notin Neighbours(l, calls[l][k].step.index)
                        => tiles[l][j] = calls[l][k].step.before[j]
                /\ calls[l][k].step.before[j].entropy = 0
                        => /\ tiles[l][j].entropy = 0
                           /\ tiles[l][j].type = calls[l][k].step.before[j].type
                /\ tiles[l][j].type = calls[l][k].step.before[j].type
                /\ tiles[l][j].index = calls[l][k].step.before[j].index

\* a successful step whose cell had a resolved neighbour, an unresolved
\* neighbour that it changed, and a cell that is no neighbour of it
C23_Witness ==
    \E l \in DOMAIN calls : \E k \in DOMAIN calls[l] :
        /\ Succeeded(l, k)
        /\ \E p, q \in Neighbours(l, calls[l][k].step.index) :
            /\ calls[l][k].step.before[p].entropy = 0
            /\ calls[l][k].step.before[q].entropy # 0
            /\ tiles[l][q] # calls[l][k].step.before[q]
        /\ \E j \in DOMAIN tiles[l] \ {calls[l][k].step.index} :
                j \notin Neighbours(l, calls[l][k].step.index)

---------------------------------------------------------------------------
\* the index of the cell at (row, col) when it is on the grid, -1 otherwise
CellAt(l, row, col) ==
    IF row \in 0..(height[l] - 1) /\ col \in 0..(width[l] - 1)
    THEN row * width[l] + col
    ELSE -1

\* C24: for every width >= 1, height >= 1 and index i of the grid, the
\* neighbour indices computed for i are exactly the in-bounds cells at
\* (row-1, col), (row+1, col), (row, col-1), (row, col+1), with
\* row = i div width and col = i mod width: there is no neighbour across a
\* grid edge and no index wraps to another row or leaves 0..width*height-1.
C24_NeighboursOnGrid ==
    \A l \in DOMAIN picks : \A k \in DOMAIN picks[l] :
        picks[l][k].op = "neighbours" =>
            /\ picks[l][k].up =
                CellAt(l, (picks[l][k].index \div width[l]) - 1, picks[l][k].index % width[l])
            /\ picks[l][k].down =
                CellAt(l, (picks[l][k].index \div width[l]) + 1, picks[l][k].index % width[l])
            /\ picks[l][k].left =
                CellAt(l, picks[l][k].index \div width[l], (picks[l][k].index % width[l]) - 1)
            /\ picks[l][k].right =
                CellAt(l, picks[l][k].index \div width[l], (picks[l][k].index % width[l]) + 1)
            /\ {picks[l][k].up, picks[l][k].down, picks[l][k].left, picks[l][k].right}
                    \subseteq (-1)..(width[l] * height[l] - 1)

\* the neighbours of a cell at the right edge of a row that is not the last
\* one, on a grid at least 3 wide: index + 1 is on the grid, in the next row
C24_Witness ==
    \E l \in DOMAIN picks : \E k \in DOMAIN picks[l] :
        /\ picks[l][k].op = "neighbours"
        /\ width[l] >= 3
        /\ picks[l][k].index % width[l] = width[l] - 1
        /\ picks[l][k].index + 1 < numTiles[l]
        /\ picks[l][k].up # -1 /\ picks[l][k].down # -1 /\ picks[l][k].left # -1

---------------------------------------------------------------------------
NoValidTiles == "WFC ERROR: there are no valid tiles remaining"

\* C25: if the cell chosen from the lowest-entropy frontier has an empty
\* candidate set, the step raises the 'no valid tiles remaining' error
\* before assigning anything: it changes no cell's type, entropy or
\* availableTiles.
C25_EmptyCandidatesRaise ==
    \A l \in DOMAIN calls : \A k \in DOMAIN calls[l] :
        (Picked(l, k) /\ Len(Candidates(calls[l][k].step)) = 0) =>
            /\ calls[l][k].result = "throw"
            /\ calls[l][k].error = NoValidTiles
            /\ calls[l][k].step.attempts = 0
            /\ tiles[l] = calls[l][k].step.before

\* a step that chose, among several untouched cells, one without candidates
C25_Witness ==
    \E l \in DOMAIN calls : \E k \in DOMAIN calls[l] :
        /\ Picked(l, k)
        /\ Len(Candidates(calls[l][k].step)) = 0
        /\ calls[l][k].error = NoValidTiles
        /\ numTiles[l] >= 2
        /\ calls[l][k].step.before[calls[l][k].step.index].entropy = Infinity

---------------------------------------------------------------------------
\* the steps that assigned a type to the cell they chose
Assigned(l, k) == Picked(l, k) /\ calls[l][k].step.attempts >= 1

\* the unresolved neighbours of the cell at index that their resolved
\* neighbours leave without any type
Contradicted(l, index) ==
    {q \in Neighbours(l, index) :
        /\ ~IsResolved(tiles[l][q])
        /\ Intersection(tiles[l], rules[l], width[l], q) = {}}

\* C26: whenever resolving a cell leaves one of its unresolved neighbours
\* with resolved-neighbour lists whose intersection is empty, the
\* contradiction is raised during that step's propagation and the run stops
\* there.
C26_ContradictionStopsRun ==
    \A l \in DOMAIN calls : \A k \in DOMAIN calls[l] :
        (Assigned(l, k) /\ Contradicted(l, calls[l][k].step.index) # {})
            => /\ calls[l][k].result = "throw"
               /\ calls[l][k].error = FailedToCollapse

---------------------------------------------------------------------------
\* the cells at i and j are side by side in a row or in a column
Adjacent(l, i, j) ==
    \/ /\ i \div width[l] = j \div width[l]
       /\ (i % width[l]) - (j % width[l]) \in {-1, 1}
    \/ /\ i % width[l] = j % width[l]
       /\ (i \div width[l]) - (j \div width[l]) \in {-1, 1}

\* the cells of S that can be reached from the cells of seen by moves to an
\* adjacent cell of S
RECURSIVE Reach(_, _, _)
Reach(l, S, seen) ==
    IF \E i \in S \ seen : \E j \in seen : Adjacent(l, i, j)
    THEN Reach(l, S, seen \cup {i \in S : \E j \in seen : Adjacent(l, i, j)})
    ELSE seen

FourConnected(l, S) == S = {} \/ Reach(l, S, {CHOOSE i \in S : TRUE}) = S

ResolvedCells(l) == {i \in DOMAIN tiles[l] : IsResolved(tiles[l][i])}

\* the instance is about to make its run on a fresh grid, random start on
FreshStart(l) == Fresh(l) /\ startWithRandom[l] /\ calls[l] = <<>>

\* the cell a step resolved was touched and next to a resolved cell
GrewFromResolved(l, k) ==
    /\ calls[l][k].step.before[calls[l][k].step.index].entropy # Infinity
    /\ \E p \in DOMAIN calls[l][k].step.before :
            /\ Adjacent(l, p, calls[l][k].step.index)
            /\ IsResolved(calls[l][k].step.before[p])

\* C27: during a single generateLevel run started on a fresh grid with
\* startWithRandom true, the step loop never resolves a cell of entropy
\* Infinity: every cell it resolves has an already resolved 4-neighbour, and
\* the resolved cells are 4-connected at every suspension point.
C27_GrowthIsConnected ==
    (\A l \in Instances : FreshStart(l))
        => [](\A l \in Instances :
                /\ \A k \in DOMAIN calls[l] : Assigned(l, k) => GrewFromResolved(l, k)
                /\ Suspended(l) => FourConnected(l, ResolvedCells(l)))

\* a run from a fresh grid, suspended after its second step with three of
\* the four cells resolved
C27_Witness ==
    \E l \in Instances :
        /\ startWithRandom[l] /\ Suspended(l)
        /\ numTiles[l] = 4
        /\ Cardinality(ResolvedCells(l)) = 3
        /\ \E k \in DOMAIN calls[l] :
            /\ calls[l][k].iterations = 2
            /\ Cardinality({i \in DOMAIN tiles[l] :
                                IsResolved(calls[l][k].step.before[i])}) = 2

---------------------------------------------------------------------------
\* the non-empty lists the resolved neighbours of the cell at i hold towards
\* it, in the tiles t
Contributed(t, r, w, i) ==
    {AllowedTypes(r, t[NeighbourIndex(i, w, Length(t), d)].type, Opposite(d)) :
        d \in ResolvedAround(t, w, i)} \ {{}}

---------------------------------------------------------------------------
\* C29: resetLevel empties rules and weights, rebuilds the tiles and sets
\* bufferstate to 'unknown', and leaves width, height, numTiles, the RNG
\* state and startWithRandom as they were, so that a startWithRandom = false
\* left by setTileData or setTiles survives it; resetTileData sets
\* startWithRandom back to true.
C29_ResetLevelFrame ==
    [][\A l \in Instances :
          /\ resetLevel(l)
                => /\ rules'[l] = <<>> /\ weighting'[l] = <<>>
                   /\ bufferstate'[l] = unknown
                   /\ Fresh(l)'
                   /\ width'[l] = width[l] /\ height'[l] = height[l]
                   /\ numTiles'[l] = numTiles[l]
                   /\ rnd'[l] = rnd[l]
                   /\ startWithRandom'[l] = startWithRandom[l]
          /\ resetTileData(l) => startWithRandom'[l] = TRUE]_vars

\* a reset level that still has startWithRandom = false
C29_Witness ==
    \E l \in Instances :
        /\ edits[l] = 2
        /\ LevelIsReset(l)
        /\ startWithRandom[l] = FALSE

---------------------------------------------------------------------------
\* the indices an array given to setTiles lists
Listed(inputs) == {inputs[k].index : k \in DOMAIN inputs}

\* the type the array gives for index i: that of its last element for i
GivenType(inputs, i) ==
    inputs[CHOOSE k \in DOMAIN inputs :
                /\ inputs[k].index = i
                /\ \A j \in DOMAIN inputs : inputs[j].index = i => j <= k].type

\* C30: setTiles assigns the given type to the cell at every listed index
\* of 0..width*height-1, index 0 included, and leaves every cell whose index
\* is not listed unchanged.
C30_SetTilesAssignsListed ==
    [][\A l \in Instances :
        \A inputs \in TilesInputs(Length(tiles[l])), flag \in BOOLEAN :
            setTiles(l, inputs, flag)
                => \A i \in DOMAIN tiles[l] :
                        IF i \in Listed(inputs)
                        THEN tiles'[l][i].type = GivenType(inputs, i)
                        ELSE tiles'[l][i] = tiles[l][i]]_vars

=============================================================================
